---- MODULE Spec2Model ----
(***************************************************************************)
(* EarlyAllocator<SIZE> of arceos/modules/bump_allocator: a double-ended    *)
(* bump allocator over one region [start, end).  Bytes are allocated       *)
(* forward from start (cursor b_pos), pages backward from end (cursor      *)
(* p_pos).  usize is modelled as an unsigned word of WordBits bits, with    *)
(* the overflow behaviour of each arithmetic operator the source uses:     *)
(* checked_* and saturating_* as written, and the plain + and - either     *)
(* panicking (overflow checks on) or wrapping (overflow checks off).       *)
(***************************************************************************)
EXTENDS Integers, Naturals, Sequences, FiniteSets, TLC

\* ---------------------------------------------------------------- bounds
\* Width of usize in bits.
WordBits == 4
\* alloc is exercised while b_count is below this (b_count only grows).
MaxAllocs == 2

\* alloc_pages is exercised while fewer page ranges than this were returned.
MaxPageAllocs == 1

\* ------------------------------------------------------- program constants
\* const PAGE_SIZE: usize = SIZE, the const generic parameter.
PAGE_SIZE == 4

\* ------------------------------------------------------------- machine word
RECURSIVE Pow2(_)
Pow2(n) == IF n = 0 THEN 1 ELSE 2 * Pow2(n - 1)

Modulus == Pow2(WordBits)
\* usize::MAX
USIZE_MAX == Modulus - 1
\* isize::MAX, the limit core::alloc::Layout puts on a size rounded up to align
ISIZE_MAX == Pow2(WordBits - 1) - 1
Word == 0 .. USIZE_MAX

Min(a, b) == IF a < b THEN a ELSE b

\* usize::checked_add: None is modelled as -1
checked_add(a, b) == IF a + b > USIZE_MAX THEN -1 ELSE a + b
\* a multiplication that wraps where checked_mul gives None
checked_mul_wraps(a, b) == (a * b) % Modulus
\* usize::checked_mul: None is modelled as -1
checked_mul(a, b) == IF a * b > USIZE_MAX THEN -1 ELSE a * b
\* usize::saturating_sub
saturating_sub(a, b) == IF a < b THEN 0 ELSE a - b
\* usize::saturating_add
saturating_add(a, b) == IF a + b > USIZE_MAX THEN USIZE_MAX ELSE a + b
\* the value a wrapping + or - leaves in the word
wrap(x) == x % Modulus

\* bitwise and of two words, bit by bit over n bits
RECURSIVE BitAndN(_, _, _)
BitAndN(x, y, n) ==
    IF n = 0 THEN 0
    ELSE (IF x % 2 = 1 /\ y % 2 = 1 THEN 1 ELSE 0)
         + 2 * BitAndN(x \div 2, y \div 2, n - 1)
BitAnd(x, y) == BitAndN(x, y, WordBits)
\* bitwise complement of a word: !x
BitNot(x) == USIZE_MAX - x

\* ------------------------------------------------------------------ inputs
\* alignments: bytes, pages and pairs of pages
Aligns == { 1, PAGE_SIZE, 2 * PAGE_SIZE }
\* sizes of byte requests
Sizes == { 0, 2 }
\* core::alloc::Layout: align a power of two, size rounded up to align at
\* most isize::MAX
RoundUp(x, a) == ((x + a - 1) \div a) * a
Layouts == { l \in [size : Sizes, align : Aligns] :
               RoundUp(l.size, l.align) <= ISIZE_MAX }

\* init(start, size): a region at address 0, an unaligned one, a page-aligned
\* one and one in the last page of the address space; empty, smaller than a
\* page, two pages and as large as a word can say
InitStarts == { 0, 1, PAGE_SIZE, USIZE_MAX - PAGE_SIZE + 1 }
InitSizes == { 0, PAGE_SIZE - 1, 2 * PAGE_SIZE, USIZE_MAX }
\* add_memory(start, size)
AddStarts == { 0, USIZE_MAX }
AddSizes == { PAGE_SIZE }
\* dealloc(pos, layout): besides the addresses alloc returned, the lowest and
\* the highest non-null address
ForeignPtrs == { 1, USIZE_MAX }
\* dealloc_pages(pos, num_pages)
PagePos == { 0, USIZE_MAX }
PageNums == { 1 }
\* alloc_pages(num_pages, align_pow2): no page, one, and a count whose
\* size in bytes overflows; align_pow2 a power of two
PageCounts == { 0, 1, USIZE_MAX }

\* ------------------------------------------------------------------- state
\* start, end, b_pos, p_pos, b_count: the fields of EarlyAllocator.
\* pc: "new" after new(), "ready" after init, "panicked" once a call panicked.
\* last: the last call, its arguments and what it returned.
\* live: the byte blocks handed out and not yet passed to dealloc, oldest
\*       first, each with the byte cursor its alloc started from.
\* pages: the page ranges handed out, oldest first.
\* skipped: since no block was live last, some alloc placed its block above
\*       the byte cursor it started from (bytes skipped to align it).
VARIABLES start, end, b_pos, p_pos, b_count, pc, last, live, pages, skipped

fields == <<start, end, b_pos, p_pos, b_count>>
ghosts == <<live, pages, skipped>>
vars == <<start, end, b_pos, p_pos, b_count, pc, last, live, pages, skipped>>

Call(op, ret, addr, size, align) ==
    [op |-> op, ret |-> ret, addr |-> addr, size |-> size, align |-> align]

\* EarlyAllocator::new
Init ==
    /\ start = 0
    /\ end = 0
    /\ b_pos = 0
    /\ p_pos = 0
    /\ b_count = 0
    /\ pc = "new"
    /\ last = Call("new", "Unit", 0, 0, 0)
    /\ live = <<>>
    /\ pages = <<>>
    /\ skipped = FALSE

\* check_space(required_size, is_byte_alloc), which no method calls
check_space(required_size, is_byte_alloc) ==
    IF is_byte_alloc
    THEN saturating_add(b_pos, required_size) <= p_pos
    ELSE saturating_sub(p_pos, required_size) >= b_pos

\* ------------------------------------------------------------ BaseAllocator
\* end as init computes it: start.checked_add(size).unwrap_or(0)
init_end(s, size) == IF checked_add(s, size) = -1 THEN 0 ELSE checked_add(s, size)

\* init(start, size), called once on the new allocator
init(s, size) ==
    /\ pc = "new"
    /\ start' = s
    /\ end' = init_end(s, size)
    /\ b_pos' = s
    /\ p_pos' = init_end(s, size)
    /\ b_count' = 0
    /\ pc' = "ready"
    /\ last' = Call("init", "Unit", s, size, 0)
    /\ UNCHANGED ghosts

\* add_memory accepting the region
add_memory_result_ok(s, size) == "Ok"

\* what add_memory returns
add_memory_result(s, size) == "NoMemory"

\* add_memory(start, size)
add_memory(s, size) ==
    /\ pc = "ready"
    /\ last' = Call("add_memory", add_memory_result(s, size), s, size, 0)
    /\ UNCHANGED <<fields, pc, ghosts>>

\* ------------------------------------------------------------ ByteAllocator
\* (self.b_pos + layout.align() - 1) & !(layout.align() - 1), the + wrapping
align_up(b, align) == BitAnd(wrap(b + align - 1), BitNot(align - 1))

\* whether the + of self.b_pos + layout.align() overflows the word
align_up_overflows(b, align) == b + align > USIZE_MAX

Outcome(kind, addr, b, c) == [kind |-> kind, addr |-> addr, b_pos |-> b, b_count |-> c]

\* alloc_tail with the count incremented before the comparison with p_pos
alloc_tail_counts_first(aligned, b, p, c, size) ==
    IF checked_add(aligned, size) = -1 THEN { Outcome("NoMemory", 0, b, c) }
    ELSE IF checked_add(aligned, size) > p THEN { Outcome("NoMemory", 0, b, c + 1) }
    ELSE IF aligned = 0
         THEN { Outcome("Ok", aligned, aligned + size, c + 1),
                Outcome("Panic", 0, aligned + size, c + 1) }
         ELSE { Outcome("Ok", aligned, aligned + size, c + 1) }

\* alloc from the aligned cursor on: the checked add, the comparison with
\* p_pos, the two assignments and NonNull::new_unchecked (undefined for a
\* null address: the address is returned as it is, or the debug check panics
\* after the assignments)
alloc_tail(aligned, b, p, c, size) ==
    IF checked_add(aligned, size) = -1 THEN { Outcome("NoMemory", 0, b, c) }
    ELSE IF checked_add(aligned, size) > p THEN { Outcome("NoMemory", 0, b, c) }
    ELSE IF aligned = 0
         THEN { Outcome("Ok", aligned, aligned + size, c + 1),
                Outcome("Panic", 0, aligned + size, c + 1) }
         ELSE { Outcome("Ok", aligned, aligned + size, c + 1) }

\* every outcome of alloc(layout) with byte cursor b, page cursor p, count c
alloc_outcomes(b, p, c, size, align) ==
    (IF align_up_overflows(b, align) THEN { Outcome("Panic", 0, b, c) } ELSE {})
    \cup alloc_tail(align_up(b, align), b, p, c, size)

\* alloc(layout)
alloc(size, align) ==
    /\ pc = "ready"
    /\ b_count < MaxAllocs
    /\ \E o \in alloc_outcomes(b_pos, p_pos, b_count, size, align) :
        /\ b_pos' = o.b_pos
        /\ b_count' = o.b_count
        /\ pc' = IF o.kind = "Panic" THEN "panicked" ELSE "ready"
        /\ last' = Call("alloc", o.kind, o.addr, size, align)
        /\ live' = IF o.kind = "Ok"
                   THEN Append(live, [addr |-> o.addr, size |-> size, before |-> b_pos])
                   ELSE live
        /\ skipped' = (skipped \/ (o.kind = "Ok" /\ o.addr # b_pos))
    /\ UNCHANGED <<start, end, p_pos, pages>>

\* dealloc_b_pos comparing ptr, not ptr + layout.size(), with b_pos
dealloc_b_pos_compares_ptr(sum, ptr, b) == IF ptr = b THEN ptr ELSE b

\* the byte cursor after dealloc, given the value of ptr + layout.size()
dealloc_b_pos(sum, ptr, b) == IF sum = b THEN ptr ELSE b

\* every outcome of dealloc(pos, layout): the + of ptr + layout.size()
\* panics or wraps when it overflows
dealloc_outcomes(b, c, ptr, size) ==
    (IF ptr + size > USIZE_MAX THEN { Outcome("Panic", ptr, b, c) } ELSE {})
    \cup { Outcome("Unit", ptr, dealloc_b_pos(wrap(ptr + size), ptr, b), c) }

\* the addresses of the live blocks
LiveAddrs == { live[i].addr : i \in 1 .. Len(live) }

\* the newest live block with this address and size, 0 if there is none
LiveIndex(ptr, size) ==
    LET S == { i \in 1 .. Len(live) : live[i].addr = ptr /\ live[i].size = size }
    IN  IF S = {} THEN 0 ELSE CHOOSE i \in S : \A j \in S : j <= i

Remove(seq, i) == [ j \in 1 .. (Len(seq) - 1) |-> IF j < i THEN seq[j] ELSE seq[j + 1] ]

\* dealloc(pos, layout): pos is NonNull
dealloc(ptr, size) ==
    /\ pc = "ready"
    /\ \E o \in dealloc_outcomes(b_pos, b_count, ptr, size) :
        /\ b_pos' = o.b_pos
        /\ b_count' = o.b_count
        /\ pc' = IF o.kind = "Panic" THEN "panicked" ELSE "ready"
        /\ last' = Call("dealloc", o.kind, ptr, size, 0)
    /\ live' = IF LiveIndex(ptr, size) = 0 THEN live ELSE Remove(live, LiveIndex(ptr, size))
    /\ skipped' = (skipped /\ live' # <<>>)
    /\ UNCHANGED <<start, end, p_pos, pages>>

\* total_bytes()
total_bytes == saturating_sub(end, start)
\* used_bytes()
used_bytes == saturating_sub(b_pos, start) + saturating_sub(end, p_pos)
\* available_bytes()
available_bytes == saturating_sub(p_pos, b_pos)

\* ------------------------------------------------------------ PageAllocator
\* the new page cursor alloc_pages computes for a request of size bytes
aligned_new_p_pos(p, size, align) ==
    BitAnd(saturating_sub(p, size), BitNot(align - 1))

PageOutcome(kind, addr, p) == [kind |-> kind, addr |-> addr, p_pos |-> p]

\* the outcome of alloc_pages(num_pages, align_pow2) with cursors b and p
alloc_pages_outcome(b, p, n, align) ==
    IF checked_mul(n, PAGE_SIZE) = -1 THEN PageOutcome("NoMemory", 0, p)
    ELSE IF aligned_new_p_pos(p, checked_mul(n, PAGE_SIZE), align) < b
         THEN PageOutcome("NoMemory", 0, p)
         ELSE PageOutcome("Ok", aligned_new_p_pos(p, checked_mul(n, PAGE_SIZE), align),
                          aligned_new_p_pos(p, checked_mul(n, PAGE_SIZE), align))

\* alloc_pages(num_pages, align_pow2)
alloc_pages(n, align) ==
    /\ pc = "ready"
    /\ Len(pages) < MaxPageAllocs
    /\ LET o == alloc_pages_outcome(b_pos, p_pos, n, align) IN
        /\ p_pos' = o.p_pos
        /\ last' = Call("alloc_pages", o.kind, o.addr, n, align)
        /\ pages' = IF o.kind = "Ok" THEN Append(pages, [addr |-> o.addr, n |-> n])
                    ELSE pages
    /\ UNCHANGED <<start, end, b_pos, b_count, pc, live, skipped>>

\* dealloc_pages giving the pages back when they are the lowest handed out
dealloc_pages_reclaims(pos, n) ==
    /\ pc = "ready"
    /\ p_pos' = IF pos = p_pos THEN Min(p_pos + n * PAGE_SIZE, USIZE_MAX) ELSE p_pos
    /\ last' = Call("dealloc_pages", "Unit", pos, n, 0)
    /\ UNCHANGED <<start, end, b_pos, b_count, pc, ghosts>>

\* dealloc_pages decrementing the count of byte allocations
dealloc_pages_counts(pos, n) ==
    /\ pc = "ready"
    /\ b_count' = saturating_sub(b_count, 1)
    /\ last' = Call("dealloc_pages", "Unit", pos, n, 0)
    /\ UNCHANGED <<start, end, b_pos, p_pos, pc, ghosts>>

\* dealloc_pages(pos, num_pages): the body is empty
dealloc_pages(pos, n) ==
    /\ pc = "ready"
    /\ last' = Call("dealloc_pages", "Unit", pos, n, 0)
    /\ UNCHANGED <<fields, pc, ghosts>>

\* total_pages()
total_pages == total_bytes \div PAGE_SIZE
\* used_pages()
used_pages == saturating_sub(end, p_pos) \div PAGE_SIZE
\* available_pages()
available_pages == available_bytes \div PAGE_SIZE

\* ----------------------------------------------------------- specification
Next ==
    \/ \E s \in InitStarts, size \in InitSizes : init(s, size)
    \/ \E s \in AddStarts, size \in AddSizes : add_memory(s, size)
    \/ \E l \in Layouts : alloc(l.size, l.align)
    \/ \E ptr \in LiveAddrs \cup ForeignPtrs, size \in Sizes : dealloc(ptr, size)
    \/ \E n \in PageCounts, a \in Aligns : alloc_pages(n, a)
    \/ \E pos \in PagePos, n \in PageNums : dealloc_pages(pos, n)

Spec == Init /\ [][Next]_vars

\* The caller passes to dealloc only blocks that are live, with their size.
NextLive ==
    \/ \E s \in InitStarts, size \in InitSizes : init(s, size)
    \/ \E s \in AddStarts, size \in AddSizes : add_memory(s, size)
    \/ \E l \in Layouts : alloc(l.size, l.align)
    \/ \E i \in 1 .. Len(live) : dealloc(live[i].addr, live[i].size)
    \/ \E n \in PageCounts, a \in Aligns : alloc_pages(n, a)
    \/ \E pos \in PagePos, n \in PageNums : dealloc_pages(pos, n)

SpecLive == Init /\ [][NextLive]_vars

\* The caller passes to dealloc only the newest live block, with its size.
NextLifo ==
    \/ \E s \in InitStarts, size \in InitSizes : init(s, size)
    \/ \E s \in AddStarts, size \in AddSizes : add_memory(s, size)
    \/ \E l \in Layouts : alloc(l.size, l.align)
    \/ (live # <<>> /\ dealloc(live[Len(live)].addr, live[Len(live)].size))
    \/ \E n \in PageCounts, a \in Aligns : alloc_pages(n, a)
    \/ \E pos \in PagePos, n \in PageNums : dealloc_pages(pos, n)

SpecLifo == Init /\ [][NextLifo]_vars

\* ------------------------------------------------------------------ claims
\* the addresses of a byte block and of a page range
ByteRange(blk) == blk.addr .. (blk.addr + blk.size - 1)
PageRange(pg) == pg.addr .. (pg.addr + pg.n * PAGE_SIZE - 1)
\* the ranges of the live byte blocks followed by those of the page ranges
Ranges ==
    [ i \in 1 .. (Len(live) + Len(pages)) |->
        IF i <= Len(live) THEN ByteRange(live[i]) ELSE PageRange(pages[i - Len(live)]) ]

\* C1: after init and after every later call, start <= b_pos <= p_pos <= end.
C1_CursorOrder ==
    pc = "ready" => (start <= b_pos /\ b_pos <= p_pos /\ p_pos <= end)

\* C2: while dealloc is only passed live blocks with their size, the ranges of
\* the live byte blocks and of the page ranges handed out are pairwise
\* disjoint and lie inside [start, end).
C2_NoOverlap ==
    pc = "ready" =>
        /\ \A i, j \in DOMAIN Ranges : i # j => Ranges[i] \cap Ranges[j] = {}
        /\ \A i \in DOMAIN Ranges : Ranges[i] \subseteq start .. (end - 1)

\* C3: a successful alloc returns a multiple of align within [start, end).
C3_AllocAlignedInRegion ==
    (last.op = "alloc" /\ last.ret = "Ok") =>
        /\ last.addr % last.align = 0
        /\ start <= last.addr
        /\ last.addr < end

\* C4: a successful alloc_pages(n, align) returns a multiple of align and of
\* PAGE_SIZE, with end - address >= n * PAGE_SIZE.
C4_PagesAlignedInRegion ==
    (last.op = "alloc_pages" /\ last.ret = "Ok") =>
        /\ last.addr % last.align = 0
        /\ last.addr % PAGE_SIZE = 0
        /\ end - last.addr >= last.size * PAGE_SIZE

\* C5: an alloc of more bytes than available_bytes() and an alloc_pages of more
\* pages than available_pages() return NoMemory.
C5_ExhaustionReported ==
    [][ /\ (last'.op = "alloc" /\ last'.size > available_bytes)
            => last'.ret = "NoMemory"
        /\ (last'.op = "alloc_pages" /\ last'.size > available_pages)
            => last'.ret = "NoMemory" ]_vars

\* C6: a call of alloc, alloc_pages or add_memory that returns NoMemory leaves
\* start, end, b_pos, p_pos and b_count as they were.
C6_FailedCallChangesNothing ==
    [][ (last'.op \in {"alloc", "alloc_pages", "add_memory"} /\ last'.ret = "NoMemory")
            => UNCHANGED fields ]_vars

\* C6 witness: with a block live below a page that was handed out, an alloc
\* of more bytes than the gap between them has just returned NoMemory.
C6_Witness ==
    /\ last.op = "alloc"
    /\ last.ret = "NoMemory"
    /\ last.size > available_bytes
    /\ live # <<>>
    /\ live[1].size > 0
    /\ pages # <<>>
    /\ pages[1].n > 0
    /\ b_pos <= p_pos
    /\ p_pos < end

\* C7: dealloc(address, size) sets b_pos to address if and only if
\* address + size equals b_pos before the call, and changes nothing else.
C7_StrictLifo ==
    [][ last'.op = "dealloc" =>
            /\ b_pos' = (IF last'.addr + last'.size = b_pos THEN last'.addr ELSE b_pos)
            /\ UNCHANGED <<start, end, p_pos, b_count>> ]_vars

C9_CountIsLiveBlocks ==
    pc = "ready" =>
        /\ b_count = Len(live)
        /\ (b_count = 0 => b_pos = start)

\* C10: used_bytes() + available_bytes() == total_bytes() after init and after
\* every later call.
C10_UsedPlusAvailableIsTotal ==
    pc = "ready" => used_bytes + available_bytes = total_bytes

\* C11: directly after init(start, size), total_bytes() == size,
\* used_bytes() == 0, available_bytes() == size, b_pos == start, p_pos == end
\* and b_count == 0, for every start and size.
C11_AfterInit ==
    last.op = "init" =>
        /\ total_bytes = last.size
        /\ used_bytes = 0
        /\ available_bytes = last.size
        /\ b_pos = start
        /\ p_pos = end
        /\ b_count = 0

\* C12: every successful alloc returns a non-null address.
C12_AllocNonNull ==
    (last.op = "alloc" /\ last.ret = "Ok") => last.addr # 0

\* C13: an alloc for which rounding b_pos up to align, or adding size to the
\* rounded cursor, exceeds the word returns NoMemory and changes nothing.
C13_AllocOverflowReported ==
    [][ (/\ last'.op = "alloc"
         /\ \/ RoundUp(b_pos, last'.align) > USIZE_MAX
            \/ RoundUp(b_pos, last'.align) + last'.size > USIZE_MAX)
            => (last'.ret = "NoMemory" /\ UNCHANGED fields) ]_vars

\* C14: an alloc_pages(n, align) whose n * PAGE_SIZE exceeds the word returns
\* NoMemory and changes nothing.
C14_PagesOverflowReported ==
    [][ (last'.op = "alloc_pages" /\ last'.size * PAGE_SIZE > USIZE_MAX)
            => (last'.ret = "NoMemory" /\ UNCHANGED fields) ]_vars

\* C14 witness: alloc_pages(usize::MAX, 1) has just returned NoMemory with at
\* least a page free between the cursors.
C14_Witness ==
    /\ last = Call("alloc_pages", "NoMemory", 0, USIZE_MAX, 1)
    /\ b_pos <= p_pos
    /\ p_pos - b_pos >= PAGE_SIZE
    /\ p_pos <= end

\* C15: a successful alloc(size, align) returns round_up(b_pos, align), sets
\* b_pos to that address plus size, increments b_count and leaves start, end
\* and p_pos unchanged.
C15_AllocEffect ==
    [][ (last'.op = "alloc" /\ last'.ret = "Ok")
            => /\ last'.addr = RoundUp(b_pos, last'.align)
               /\ b_pos' = last'.addr + last'.size
               /\ b_count' = b_count + 1
               /\ UNCHANGED <<start, end, p_pos>> ]_vars

\* C16: after init p_pos never increases, and dealloc_pages leaves every field
\* unchanged.
C16_PagesNeverReclaimed ==
    [][ pc = "ready"
            => /\ p_pos' <= p_pos
               /\ (last'.op = "dealloc_pages" => UNCHANGED fields) ]_vars

\* C16 witness: dealloc_pages has just been called on the page range that
\* was handed out, and p_pos is where alloc_pages left it.
C16_Witness ==
    /\ last.op = "dealloc_pages"
    /\ pages # <<>>
    /\ pages[1].n > 0
    /\ last.addr = pages[1].addr
    /\ p_pos = pages[1].addr
    /\ p_pos < end

\* C17: add_memory returns NoMemory for every argument, in every state, and
\* leaves the fields unchanged.
C17_AddMemoryUnsupported ==
    [][ last'.op = "add_memory"
            => (last'.ret = "NoMemory" /\ UNCHANGED fields) ]_vars

\* C17 witness: add_memory has just returned NoMemory on an allocator with a
\* live block.
C17_Witness ==
    /\ last.op = "add_memory"
    /\ last.ret = "NoMemory"
    /\ live # <<>>

\* the request alloc(size, align), made in the state (b, p, c), returns NoMemory
AllocRefused(b, p, c, size, align) ==
    \A o \in alloc_outcomes(b, p, c, size, align) : o.kind = "NoMemory"

\* the request alloc_pages(n, align), made in the state (b, p), returns NoMemory
PagesRefused(b, p, n, align) ==
    alloc_pages_outcome(b, p, n, align).kind = "NoMemory"

\* C18: a request that returns NoMemory in a state returns NoMemory after
\* every alloc, alloc_pages, dealloc_pages, add_memory and every dealloc that
\* does not move b_pos.
C18_ExhaustionPermanent ==
    [][ (/\ pc = "ready"
         /\ last'.op = "dealloc" => b_pos' = b_pos)
            => /\ \A l \in Layouts :
                    AllocRefused(b_pos, p_pos, b_count, l.size, l.align)
                        => AllocRefused(b_pos', p_pos', b_count', l.size, l.align)
               /\ \A n \in PageCounts, a \in Aligns :
                    PagesRefused(b_pos, p_pos, n, a)
                        => PagesRefused(b_pos', p_pos', n, a) ]_vars

\* C19: after init no operation changes start or end, alloc and dealloc leave
\* p_pos unchanged, and alloc_pages and dealloc_pages leave b_pos and b_count
\* unchanged.
C19_RegionFixedZonesIndependent ==
    [][ pc = "ready"
            => /\ UNCHANGED <<start, end>>
               /\ (last'.op \in {"alloc", "dealloc"} => p_pos' = p_pos)
               /\ (last'.op \in {"alloc_pages", "dealloc_pages"}
                        => UNCHANGED <<b_pos, b_count>>) ]_vars

\* C19 witness: bytes and pages have both been handed out, the byte cursor
\* has moved off start and the page cursor off end.
C19_Witness ==
    /\ live # <<>>
    /\ pages # <<>>
    /\ pages[1].n > 0
    /\ start < b_pos
    /\ b_pos <= p_pos
    /\ p_pos < end
    /\ b_count = Len(live)

====
